---- MODULE Spec2Model ----
(***************************************************************************)
(* Model of the manga-reader navigation engine (src/src/main.rs): the      *)
(* natural-order comparator and the MangaReader state machine driven by    *)
(* the per-frame update() callback.                                        *)
(*                                                                         *)
(* Strings are modelled as sequences of one-character strings; a path is   *)
(* such a sequence with "/" as the separator.  An Option<T> is a sequence  *)
(* of length 0 (None) or 1 (Some).                                         *)
(***************************************************************************)
EXTENDS Integers, Sequences, FiniteSets, TLC

(***************************************************************************)
(* Characters                                                              *)
(***************************************************************************)
DigitSeq == <<"0", "1", "2", "3", "4", "5", "6", "7", "8", "9">>

UpperSeq == <<"A", "B", "C", "D", "E", "F", "G", "H", "I", "J", "K", "L", "M",
              "N", "O", "P", "Q", "R", "S", "T", "U", "V", "W", "X", "Y", "Z">>

LowerSeq == <<"a", "b", "c", "d", "e", "f", "g", "h", "i", "j", "k", "l", "m",
              "n", "o", "p", "q", "r", "s", "t", "u", "v", "w", "x", "y", "z">>

IndexIn(seq, x) == IF \E i \in 1..Len(seq) : seq[i] = x
                   THEN CHOOSE i \in 1..Len(seq) : seq[i] = x
                   ELSE 0

SeqRange(seq) == {seq[i] : i \in 1..Len(seq)}

\* the characters the model uses
Chars == SeqRange(DigitSeq) \cup SeqRange(UpperSeq) \cup SeqRange(LowerSeq)
             \cup {"-", ".", "/", "_"}

\* char::is_ascii_digit
is_ascii_digit(c) == c \in SeqRange(DigitSeq)

\* the Unicode scalar value of a character
CodePointTable ==
    [c \in Chars |->
        IF IndexIn(DigitSeq, c) > 0 THEN 47 + IndexIn(DigitSeq, c)
        ELSE IF IndexIn(UpperSeq, c) > 0 THEN 64 + IndexIn(UpperSeq, c)
        ELSE IF IndexIn(LowerSeq, c) > 0 THEN 96 + IndexIn(LowerSeq, c)
        ELSE IF c = "-" THEN 45
        ELSE IF c = "." THEN 46
        ELSE IF c = "/" THEN 47
        ELSE 95]

CodePoint(c) == CodePointTable[c]

LowercaseTable ==
    [c \in Chars |-> IF IndexIn(UpperSeq, c) > 0 THEN LowerSeq[IndexIn(UpperSeq, c)] ELSE c]

\* a faulty variant of to_lowercase that keeps the case
to_lowercase_keeping_case(c) == c

\* char::to_lowercase
to_lowercase(c) == LowercaseTable[c]

\* str::to_lowercase
str_to_lowercase(s) == [i \in 1..Len(s) |-> to_lowercase(s[i])]

\* a faulty variant of cmp_int that never answers Equal
cmp_int_never_equal(x, y) == IF x <= y THEN "Less" ELSE "Greater"

\* Ord::cmp on integers
cmp_int(x, y) == IF x < y THEN "Less" ELSE IF x > y THEN "Greater" ELSE "Equal"

(***************************************************************************)
(* Digit runs and u64 parsing.  A parsed value is kept as its decimal      *)
(* digits without leading zeros (<<>> is the value 0), so that 64-bit      *)
(* values are compared exactly.                                            *)
(***************************************************************************)
RECURSIVE DigitRunLen(_)
DigitRunLen(s) == IF s = <<>> \/ ~is_ascii_digit(Head(s)) THEN 0
                  ELSE 1 + DigitRunLen(Tail(s))

Drop(s, n) == SubSeq(s, n + 1, Len(s))

\* a faulty variant of StripZeros that keeps the leading zeros
KeepZeros(s) == s

RECURSIVE StripZeros(_)
StripZeros(s) == IF s # <<>> /\ Head(s) = "0" THEN StripZeros(Tail(s)) ELSE s

RECURSIVE cmp_digits(_, _)
cmp_digits(x, y) ==
    IF x = <<>> THEN "Equal"
    ELSE IF Head(x) = Head(y) THEN cmp_digits(Tail(x), Tail(y))
    ELSE cmp_int(CodePoint(Head(x)), CodePoint(Head(y)))

\* u64::cmp on values held as stripped digit sequences
cmp_u64(x, y) == IF Len(x) # Len(y) THEN cmp_int(Len(x), Len(y)) ELSE cmp_digits(x, y)

\* u64::MAX = 18446744073709551615
U64MaxDigits == <<"1", "8", "4", "4", "6", "7", "4", "4", "0", "7",
                  "3", "7", "0", "9", "5", "5", "1", "6", "1", "5">>

\* a faulty variant of parse_u64 that keeps values above u64::MAX
parse_u64_unbounded(run) == StripZeros(run)

\* num_str.parse::<u64>().unwrap_or(0)
parse_u64(run) ==
    LET v == StripZeros(run)
    IN IF cmp_u64(v, U64MaxDigits) = "Greater" THEN <<>> ELSE v

(***************************************************************************)
(* The comparator                                                          *)
(***************************************************************************)
\* a faulty variant of exhausted that orders the longer name first
exhausted_longer_first(a, b) ==
    IF a = <<>> /\ b = <<>> THEN "Equal"
    ELSE IF a = <<>> THEN "Greater"
    ELSE "Less"

\* the match arms (None, None), (None, Some(_)) and (Some(_), None)
exhausted(a, b) ==
    IF a = <<>> /\ b = <<>> THEN "Equal"
    ELSE IF a = <<>> THEN "Less"
    ELSE "Greater"

RECURSIVE natural_sort(_, _)
natural_sort(a, b) ==
    IF a = <<>> \/ b = <<>> THEN exhausted(a, b)
    ELSE IF is_ascii_digit(Head(a)) /\ is_ascii_digit(Head(b))
    THEN LET na == DigitRunLen(a)
             nb == DigitRunLen(b)
             c  == cmp_u64(parse_u64(SubSeq(a, 1, na)), parse_u64(SubSeq(b, 1, nb)))
         IN IF c = "Equal" THEN natural_sort(Drop(a, na), Drop(b, nb)) ELSE c
    ELSE LET c == cmp_int(CodePoint(to_lowercase(Head(a))),
                          CodePoint(to_lowercase(Head(b))))
         IN IF c = "Equal" THEN natural_sort(Tail(a), Tail(b)) ELSE c

(***************************************************************************)
(* Paths                                                                   *)
(***************************************************************************)
None == <<>>
Some(x) == <<x>>

LastIndexOf(s, c) == IF \E i \in 1..Len(s) : s[i] = c
                     THEN CHOOSE i \in 1..Len(s) : s[i] = c /\ \A j \in (i+1)..Len(s) : s[j] # c
                     ELSE 0

\* Path::file_name (the final component)
file_name(p) == Drop(p, LastIndexOf(p, "/"))

\* Path::parent
parent(p) == SubSeq(p, 1, LastIndexOf(p, "/") - 1)

\* Path::extension: None when the file name has no "." or only a leading one
extension(p) ==
    LET f == file_name(p)
        k == LastIndexOf(f, ".")
    IN IF k <= 1 THEN None ELSE Some(Drop(f, k))

natural_sort_paths(a, b) == natural_sort(file_name(a), file_name(b))

(***************************************************************************)
(* The file system the reader runs against.  Directory "d" holds the image *)
(* files of ImagePool (the first MaxDirFiles of them), a text file, a      *)
(* hidden image and five archives; "r.cbz" is an archive named by a        *)
(* relative path in the working directory.                                 *)
(***************************************************************************)
MaxDirFiles == 3

DirD == <<"d">>

Img2    == <<"d", "/", "2", ".", "p", "n", "g">>
Img02   == <<"d", "/", "0", "2", ".", "p", "n", "g">>
Img10   == <<"d", "/", "1", "0", ".", "p", "n", "g">>
Img1    == <<"d", "/", "1", ".", "g", "i", "f">>
Img3    == <<"d", "/", "3", ".", "J", "P", "G">>
TxtD    == <<"d", "/", "n", ".", "t", "x", "t">>
HiddenD == <<"d", "/", "h", ".", "j", "p", "g">>
Vol1    == <<"d", "/", "v", "1", ".", "c", "b", "z">>
Vol2    == <<"d", "/", "v", "2", ".", "c", "b", "z">>
Vol3    == <<"d", "/", "v", "3", ".", "c", "b", "z">>
Vol4    == <<"d", "/", "v", "4", ".", "Z", "I", "P">>
Vol5    == <<"d", "/", "v", "0", "5", ".", "c", "b", "z">>
VolR    == <<"r", ".", "c", "b", "z">>

\* Directory "w" holds an archive of MaxPanelEntries images (1.png, 2.png,
\* ...) and an archive without any recognized image.
MaxPanelEntries == 7

DirW   == <<"w">>
PanelA == <<"w", "/", "a", ".", "c", "b", "z">>
PanelB == <<"w", "/", "b", ".", "c", "b", "z">>

PanelFiles == <<PanelA, PanelB>>

PanelEntry(i) == <<DigitSeq[i + 1], ".", "p", "n", "g">>

ImagePool == <<Img2, Img02, Img10, Img1, Img3>>

InitialImages == {ImagePool[i] : i \in 1..MaxDirFiles}

\* image files whose bytes do not decode
CorruptImages == {Img10}

\* files carrying FILE_ATTRIBUTE_HIDDEN or FILE_ATTRIBUTE_SYSTEM
HiddenFiles == {HiddenD}

OtherFiles == <<TxtD, HiddenD, Vol5, Vol4, Vol3, Vol2, Vol1, VolR>>

Directories == {DirD, DirW}

\* the members of each archive in index order; by_index fails on a member
\* that is not readable (e.g. an encrypted one)
Member(name, readable) == [name |-> name, readable |-> readable]

ArchiveMembers(a) ==
    IF a = Vol1 \/ a = VolR
    THEN <<Member(<<"2", ".", "p", "n", "g">>, TRUE),
           Member(<<"1", ".", "p", "n", "g">>, TRUE),
           Member(<<"n", ".", "t", "x", "t">>, TRUE)>>
    ELSE IF a = Vol2
    THEN <<Member(<<"b", ".", "p", "n", "g">>, TRUE),
           Member(<<"c", "/", "a", ".", "j", "p", "e", "g">>, TRUE),
           Member(<<"C", ".", "P", "N", "G">>, TRUE)>>
    ELSE IF a = Vol3
    THEN <<Member(<<"x", ".", "w", "e", "b", "p">>, TRUE),
           Member(<<"y", ".", "p", "n", "g">>, FALSE),
           Member(<<"z", ".", "p", "n", "g">>, TRUE)>>
    ELSE IF a = Vol4
    THEN <<Member(<<"n", ".", "t", "x", "t">>, TRUE)>>
    ELSE IF a = Vol5
    THEN <<Member(<<"p", ".", "g", "i", "f">>, TRUE)>>
    ELSE IF a = PanelA
    THEN [i \in 1..MaxPanelEntries |-> Member(PanelEntry(i), TRUE)]
    ELSE IF a = PanelB
    THEN <<Member(<<"n", ".", "t", "x", "t">>, TRUE)>>
    ELSE <<>>

Archives == {Vol1, Vol2, Vol3, Vol4, Vol5, VolR, PanelA, PanelB}

\* every member name of every archive
AllMemberNames ==
    UNION {{ArchiveMembers(a)[i].name : i \in 1..Len(ArchiveMembers(a))} : a \in Archives}

\* every path the reader can come to hold
PathUniverse ==
    SeqRange(ImagePool) \cup SeqRange(OtherFiles) \cup SeqRange(PanelFiles)
        \cup Directories \cup AllMemberNames

(***************************************************************************)
(* The path functions and the comparator, tabulated once over PathUniverse *)
(***************************************************************************)
ParentTable == [p \in PathUniverse |-> parent(p)]

ExtensionTable == [p \in PathUniverse |-> extension(p)]

NaturalSortPathsTable ==
    [a \in PathUniverse |-> [b \in PathUniverse |-> natural_sort_paths(a, b)]]

NaturalSortTable ==
    [a \in PathUniverse |-> [b \in PathUniverse |-> natural_sort(a, b)]]

(***************************************************************************)
(* slice::sort_by: a stable sort (insertion sort on short slices).  The    *)
(* two comparator closures of the program are selected by by_file_name:    *)
(* TRUE is |a, b| natural_sort_paths(a, b), FALSE is natural_sort on the   *)
(* whole entry name (load_cbz).                                            *)
(***************************************************************************)
sort_cmp(by_file_name, a, b) ==
    IF by_file_name THEN NaturalSortPathsTable[a][b] ELSE NaturalSortTable[a][b]

\* a faulty variant of InsertSorted that is not stable: x goes before the
\* elements it compares Equal to
RECURSIVE InsertBeforeEqual(_, _, _)
InsertBeforeEqual(sorted, x, by_file_name) ==
    IF sorted = <<>> THEN <<x>>
    ELSE IF sort_cmp(by_file_name, x, sorted[Len(sorted)]) # "Greater"
         THEN Append(InsertBeforeEqual(SubSeq(sorted, 1, Len(sorted) - 1), x,
                                       by_file_name),
                     sorted[Len(sorted)])
         ELSE Append(sorted, x)

RECURSIVE InsertSorted(_, _, _)
InsertSorted(sorted, x, by_file_name) ==
    IF sorted = <<>> THEN <<x>>
    ELSE IF sort_cmp(by_file_name, x, sorted[Len(sorted)]) = "Less"
         THEN Append(InsertSorted(SubSeq(sorted, 1, Len(sorted) - 1), x, by_file_name),
                     sorted[Len(sorted)])
         ELSE Append(sorted, x)

RECURSIVE sort_by(_, _)
sort_by(v, by_file_name) ==
    IF v = <<>> THEN <<>>
    ELSE \* the sorted head is bound as a value: it is computed once
         CHOOSE sorted \in {InsertSorted(head, v[Len(v)], by_file_name) :
                                head \in {sort_by(SubSeq(v, 1, Len(v) - 1), by_file_name)}} :
             TRUE

(***************************************************************************)
(* External collaborators: directory walk, file system, zip, image decode  *)
(***************************************************************************)
Reverse(v) == [i \in 1..Len(v) |-> v[Len(v) + 1 - i]]

\* WalkDir::new(dir).max_depth(1) with errors dropped: the possible
\* enumerations of the files of dir.  The order in which a directory is
\* enumerated is not specified: the image files are reported in the order
\* of ImagePool or in the reverse order, followed by the other files.  A
\* walk of something that is not a directory (such as the empty parent of
\* a relative path) yields nothing.
WalkListings(dir, disk) ==
    IF dir \notin Directories THEN {<<>>}
    ELSE LET imgs   == SelectSeq(ImagePool, LAMBDA f : ParentTable[f] = dir /\ f \in disk)
             others == SelectSeq(OtherFiles \o PanelFiles,
                                 LAMBDA f : ParentTable[f] = dir /\ f \in disk)
         IN {imgs \o others, Reverse(imgs) \o others}

\* image::ImageReader::open(path).with_guessed_format().decode()
Decodable(path, disk) ==
    /\ path \in disk
    /\ path \in (InitialImages \cup {HiddenD}) \ CorruptImages

ExtJpg  == <<"j", "p", "g">>
ExtJpeg == <<"j", "p", "e", "g">>
ExtPng  == <<"p", "n", "g">>
ExtWebp == <<"w", "e", "b", "p">>
ExtGif  == <<"g", "i", "f">>
ExtCbz  == <<"c", "b", "z">>
ExtZip  == <<"z", "i", "p">>

\* a faulty variant of has_image_extension that accepts every extension
has_any_extension(path) == ExtensionTable[path] # None

\* ["jpg", "jpeg", "png", "webp", "gif"].contains(&ext.to_lowercase())
has_image_extension(path) ==
    /\ ExtensionTable[path] # None
    /\ str_to_lowercase(ExtensionTable[path][1]) \in {ExtJpg, ExtJpeg, ExtPng, ExtWebp, ExtGif}

is_archive_file(path) ==
    /\ ExtensionTable[path] # None
    /\ str_to_lowercase(ExtensionTable[path][1]) \in {ExtCbz, ExtZip}

\* File::open(path) followed by ZipArchive::new
ArchiveOpens(path, disk) == path \in disk /\ path \in Archives

\* index of the first member on which by_index fails, 0 if there is none
FirstUnreadable(members) ==
    IF \E i \in 1..Len(members) : ~members[i].readable
    THEN CHOOSE i \in 1..Len(members) :
            ~members[i].readable /\ \A j \in 1..(i - 1) : members[j].readable
    ELSE 0

MemberNames(members) == [i \in 1..Len(members) |-> members[i].name]

(***************************************************************************)
(* struct MangaReader.  zoom, pan offsets, drag state, fullscreen and      *)
(* auto_fit do not influence navigation and are left out, as are the       *)
(* thumbnail cache and the visibility of the thumbnail panel (the panel    *)
(* can be toggled in any state).  The current texture is represented by    *)
(* the entry it was decoded from, and a status message by its text; the    *)
(* countdown that eventually hides a message is not modelled.              *)
(***************************************************************************)
DefaultReader ==
    [ current_image            |-> None,
      current_path             |-> None,
      files_in_folder          |-> <<>>,
      current_index            |-> 0,
      status_message           |-> None,
      archive_files            |-> <<>>,
      current_archive_index    |-> 0,
      show_last_image_alert    |-> FALSE,
      is_in_archive            |-> FALSE,
      show_delete_confirmation |-> FALSE,
      pending_delete_path      |-> None ]

\* Result values: r is the reader after the call
Ok(r)  == [r |-> r, res |-> "Ok"]
Err(r) == [r |-> r, res |-> "Err"]
Panic(r) == [r |-> r, res |-> "Panic"]

set_status(r, message) == [r EXCEPT !.status_message = Some(message)]

\* `call?; self.set_status(message); Ok(())`: an error is passed on as it is
and_then_status(l, message) ==
    IF l.res = "Err" THEN l ELSE Ok(set_status(l.r, message))

\* `if let Err(e) = call { self.set_status(message) }`
on_err_status(l, message) ==
    IF l.res = "Err" THEN Err(set_status(l.r, message)) ELSE l

\* Vec indexing is 0-based in the program and 1-based in the model
At(v, i) == v[i + 1]

\* iter().position(|p| p == path).unwrap_or(0)
position_or_0(v, path) ==
    IF \E i \in 1..Len(v) : v[i] = path
    THEN (CHOOSE i \in 1..Len(v) : v[i] = path /\ \A j \in 1..(i - 1) : v[j] # path) - 1
    ELSE 0

list_archive_files_in_directory(r, walk, disk) ==
    [r EXCEPT !.archive_files =
        sort_by(SelectSeq(walk, LAMBDA f : f \in disk /\ is_archive_file(f)), TRUE)]

list_image_files_in_directory(r, walk, disk) ==
    [r EXCEPT !.files_in_folder =
        sort_by(SelectSeq(walk, LAMBDA f : /\ f \in disk
                                           /\ f \notin HiddenFiles
                                           /\ has_image_extension(f)), TRUE)]

load_image(r, path, disk) ==
    IF Decodable(path, disk)
    THEN Ok([r EXCEPT !.current_image = Some(path)])
    ELSE Err(r)

load_cbz_image(r, cbz_path, image_path, disk) ==
    IF ~ArchiveOpens(cbz_path, disk) THEN Err(r)
    ELSE IF ~\E i \in 1..Len(ArchiveMembers(cbz_path)) :
                /\ ArchiveMembers(cbz_path)[i].name = image_path
                /\ ArchiveMembers(cbz_path)[i].readable
    THEN Err(r)
    ELSE IF ExtensionTable[image_path] \notin
                {Some(ExtJpg), Some(ExtJpeg), Some(ExtPng), Some(ExtWebp), Some(ExtGif)}
    THEN Err(r)
    ELSE Ok([r EXCEPT !.current_image = Some(image_path)])

\* the names load_cbz has read when by_index fails, or all of them
ReadableMembers(members) ==
    IF FirstUnreadable(members) = 0 THEN MemberNames(members)
    ELSE SubSeq(MemberNames(members), 1, FirstUnreadable(members) - 1)

\* the tail of load_cbz: files_in_folder has been filled and sorted
load_first_of_archive(r, path, disk) ==
    IF r.files_in_folder # <<>>
    THEN and_then_status(
             load_cbz_image([r EXCEPT !.current_index = 0], path,
                            r.files_in_folder[1], disk),
             "Loaded archive with N images")
    ELSE Ok(set_status(r, "No images found in archive"))

load_cbz(r, path, disk) ==
    IF ~ArchiveOpens(path, disk) THEN Err(r)
    ELSE IF FirstUnreadable(ArchiveMembers(path)) # 0
    THEN Err([r EXCEPT !.files_in_folder =
                 SelectSeq(ReadableMembers(ArchiveMembers(path)), has_image_extension)])
    ELSE load_first_of_archive(
             [r EXCEPT !.files_in_folder =
                 sort_by(SelectSeq(MemberNames(ArchiveMembers(path)),
                                   has_image_extension), FALSE)],
             path, disk)

\* the head of open_file: the path is recorded and the alert cleared before
\* anything is read
begin_open(r, path) ==
    [r EXCEPT !.current_path = Some(path), !.show_last_image_alert = FALSE]

\* a faulty variant of open_directory that fails on an empty listing
open_directory_rejecting_empty(r, disk) ==
    IF r.files_in_folder # <<>>
    THEN and_then_status(load_image([r EXCEPT !.current_index = 0],
                                    r.files_in_folder[1], disk),
                         "Opened directory")
    ELSE Err(r)

\* the directory branch of open_file, r being the reader after the listing
open_directory(r, disk) ==
    IF r.files_in_folder # <<>>
    THEN and_then_status(load_image([r EXCEPT !.current_index = 0],
                                    r.files_in_folder[1], disk),
                         "Opened directory")
    ELSE Ok(set_status(r, "No images found in directory"))

\* the archive branch of open_file, r being the reader after the listing
\* of the archives of the parent directory
open_archive(r, path, disk) ==
    and_then_status(
        load_cbz([r EXCEPT !.current_archive_index = position_or_0(r.archive_files, path)],
                 path, disk),
        "Opened archive")

\* `position(|p| p == path).unwrap_or(0)` on the fresh listing
locate_in_listing(r, path) ==
    [r EXCEPT !.current_index = position_or_0(r.files_in_folder, path)]

\* the loose-image branch of open_file, l being the result of load_image
open_image(l, path, walk, disk) ==
    IF l.res = "Err" THEN l
    ELSE Ok(locate_in_listing(
                list_image_files_in_directory(set_status(l.r, "Opened image"), walk, disk),
                path))

\* walk is the enumeration WalkDir produces for the one directory this call
\* lists (path itself, or its parent)
open_file(r, path, walk, disk) ==
    IF path \in Directories
    THEN open_directory(
             list_image_files_in_directory(
                 [begin_open(r, path) EXCEPT !.is_in_archive = FALSE], walk, disk),
             disk)
    ELSE IF is_archive_file(path)
    THEN open_archive(
             list_archive_files_in_directory(
                 [begin_open(r, path) EXCEPT !.is_in_archive = TRUE], walk, disk),
             path, disk)
    ELSE open_image(load_image([begin_open(r, path) EXCEPT !.is_in_archive = FALSE],
                               path, disk),
                    path, walk, disk)

\* the directory open_file walks for path
WalkedDir(path) == IF path \in Directories THEN path ELSE ParentTable[path]

\* a faulty variant of next_archive_index that skips one chain entry
next_archive_index_skipping(r) == r.current_archive_index + 2

\* let next_index = self.current_archive_index + 1
next_archive_index(r) == r.current_archive_index + 1

\* the branch of load_next_archive taken at the end of the chain
no_more_archives(r) == set_status(r, "No more archives to load")

\* the chain entry next_index becomes the open archive and is loaded
open_next_archive(r, next_index, disk) ==
    load_cbz([r EXCEPT !.current_archive_index = next_index,
                       !.current_path = Some(At(r.archive_files, next_index))],
             At(r.archive_files, next_index), disk)

\* `self.load_cbz(&next_archive, ctx)?; self.set_status(..); Ok(true)`
loaded_next_archive(l) ==
    IF l.res = "Err" THEN l
    ELSE [r |-> set_status(l.r, "Loaded next archive"), res |-> "OkTrue"]

\* res is "Err", "OkTrue" or "OkFalse"
load_next_archive(r, disk) ==
    IF r.archive_files = <<>> THEN [r |-> r, res |-> "OkFalse"]
    ELSE IF next_archive_index(r) < Len(r.archive_files)
    THEN loaded_next_archive(open_next_archive(r, next_archive_index(r), disk))
    ELSE [r |-> no_more_archives(r), res |-> "OkFalse"]

\* a faulty variant of vec_remove that drops the last element
vec_remove_last(v, index) == SubSeq(v, 1, Len(v) - 1)

\* Vec::remove(index), index counted from 0
vec_remove(v, index) ==
    [i \in 1..(Len(v) - 1) |-> IF i <= index THEN v[i] ELSE v[i + 1]]

\* a faulty variant of reject_archive_delete that reports nothing
reject_archive_delete_silently(r, disk) == [r |-> r, res |-> "Ok", disk |-> disk]

\* `if self.is_in_archive { self.set_status(..); return Ok(()); }`
reject_archive_delete(r, disk) ==
    [r |-> set_status(r, "Cannot delete files inside archives"),
     res |-> "Ok", disk |-> disk]

\* fs_ok: whether the operating system lets the file be removed.
\* The result carries the file system after the call.
delete_current_file(r, disk, fs_ok) ==
    IF r.is_in_archive
    THEN reject_archive_delete(r, disk)
    ELSE IF r.files_in_folder = <<>>
    THEN [r |-> r, res |-> "Ok", disk |-> disk]
    ELSE IF r.current_index >= Len(r.files_in_folder)
    THEN [r |-> r, res |-> "Panic", disk |-> disk]
    ELSE
      LET file_to_delete == At(r.files_in_folder, r.current_index)
      IN IF ~(fs_ok /\ file_to_delete \in disk)
         THEN [r |-> r, res |-> "Err", disk |-> disk]
         ELSE
           LET disk1 == disk \ {file_to_delete}
               files == vec_remove(r.files_in_folder, r.current_index)
               r1 == [set_status(r, "Deleted") EXCEPT !.files_in_folder = files]
           IN IF files # <<>>
              THEN LET r2 == [r1 EXCEPT !.current_index =
                                 IF r1.current_index >= Len(files)
                                 THEN Len(files) - 1 ELSE r1.current_index]
                       l  == load_image(r2, At(files, r2.current_index), disk1)
                   IN [r |-> l.r, res |-> l.res, disk |-> disk1]
              ELSE [r |-> set_status([r1 EXCEPT !.current_image = None],
                                     "No more images in directory"),
                    res |-> "Ok", disk |-> disk1]

\* a faulty variant of load_current that moves the cursor of a directory
\* back to the displayed entry when the load fails
load_current_rewinding(r, disk) ==
    IF r.current_path = None THEN Ok(r)
    ELSE IF r.is_in_archive
    THEN load_cbz_image(r, r.current_path[1],
                        At(r.files_in_folder, r.current_index), disk)
    ELSE IF Decodable(At(r.files_in_folder, r.current_index), disk)
    THEN load_image(r, At(r.files_in_folder, r.current_index), disk)
    ELSE Err([r EXCEPT !.current_index =
                 IF r.current_image = None THEN 0
                 ELSE position_or_0(r.files_in_folder, r.current_image[1])])

\* load the entry at the cursor the way next_image and previous_image do
load_current(r, disk) ==
    LET path == At(r.files_in_folder, r.current_index)
    IN IF r.current_path = None THEN Ok(r)
       ELSE IF r.is_in_archive
       THEN load_cbz_image(r, r.current_path[1], path, disk)
       ELSE load_image(r, path, disk)

\* a variant of advance_index that stops at the last index
advance_index_clamped(index, len) == IF index + 1 < len THEN index + 1 ELSE index

\* (self.current_index + 1) % self.files_in_folder.len()
advance_index(index, len) == (index + 1) % len

\* a faulty variant of raise_last_image_alert that reports nothing
raise_last_image_alert_silently(r) == [r EXCEPT !.show_last_image_alert = TRUE]

\* the first advance attempt at the last image of an archive
raise_last_image_alert(r) ==
    set_status([r EXCEPT !.show_last_image_alert = TRUE],
               "Reaching last image. Scroll again to load next archive.")

\* `if !self.load_next_archive(ctx)? { return Ok(()); } return Ok(());`
discard_advanced(l) == IF l.res = "Err" THEN l ELSE Ok(l.r)

next_image(r, disk) ==
    IF r.files_in_folder = <<>> THEN Ok(r)
    ELSE IF r.is_in_archive /\ r.current_index = Len(r.files_in_folder) - 1
    THEN IF r.show_last_image_alert
         THEN discard_advanced(
                  load_next_archive([r EXCEPT !.show_last_image_alert = FALSE], disk))
         ELSE Ok(raise_last_image_alert(r))
    ELSE load_current([r EXCEPT !.show_last_image_alert = FALSE,
                                !.current_index = advance_index(r.current_index,
                                                                Len(r.files_in_folder))],
                      disk)

\* a faulty variant of retreat_index that stops at index 0
retreat_index_clamped(index, len) == IF index = 0 THEN 0 ELSE index - 1

\* `if self.current_index == 0 { len - 1 } else { self.current_index - 1 }`
retreat_index(index, len) == IF index = 0 THEN len - 1 ELSE index - 1

\* a faulty variant of clear_last_image_alert that keeps the flag
clear_last_image_alert_forgotten(r) == r

\* `self.show_last_image_alert = false;` of previous_image
clear_last_image_alert(r) == [r EXCEPT !.show_last_image_alert = FALSE]

previous_image(r, disk) ==
    IF r.files_in_folder = <<>> THEN Ok(r)
    ELSE LET r0 == clear_last_image_alert(r)
             r1 == [r0 EXCEPT !.current_index = retreat_index(r.current_index,
                                                              Len(r.files_in_folder))]
         IN IF r1.current_index >= Len(r1.files_in_folder) THEN Panic(r1)
            ELSE load_current(r1, disk)

\* the Home / End branch of handle_keyboard_input: the loader is chosen by
\* the extension of current_path and its error is discarded
load_by_path_extension(r, disk) ==
    LET path == At(r.files_in_folder, r.current_index)
    IN IF r.current_path = None THEN r
       ELSE IF is_archive_file(r.current_path[1])
       THEN load_cbz_image(r, r.current_path[1], path, disk).r
       ELSE load_image(r, path, disk).r

\* a faulty variant of home_key that also dismisses the last-image alert
home_key_clearing_alert(r, disk) ==
    IF r.files_in_folder = <<>> THEN r
    ELSE load_by_path_extension([r EXCEPT !.current_index = 0,
                                          !.show_last_image_alert = FALSE], disk)

home_key(r, disk) ==
    IF r.files_in_folder = <<>> THEN r
    ELSE load_by_path_extension([r EXCEPT !.current_index = 0], disk)

end_key(r, disk) ==
    IF r.files_in_folder = <<>> THEN r
    ELSE load_by_path_extension(
             [r EXCEPT !.current_index = Len(r.files_in_folder) - 1], disk)

delete_key(r) ==
    IF r.files_in_folder = <<>> THEN Ok(r)
    ELSE IF r.current_index >= Len(r.files_in_folder)
    THEN Panic([r EXCEPT !.show_delete_confirmation = TRUE])
    ELSE Ok([r EXCEPT !.show_delete_confirmation = TRUE,
                      !.pending_delete_path =
                          Some(At(r.files_in_folder, r.current_index))])

\* a faulty variant of close_confirmation that does not report the error
close_confirmation_ignoring_error(d) ==
    IF d.res = "Panic" THEN d
    ELSE [r |-> [d.r EXCEPT !.show_delete_confirmation = FALSE,
                            !.pending_delete_path = None],
          res |-> d.res, disk |-> d.disk]

\* the "Yes, Delete" branch after delete_current_file returned d: an error is
\* reported and the confirmation window closes; a panic leaves the branch
close_confirmation(d) ==
    IF d.res = "Panic" THEN d
    ELSE [r |-> [(IF d.res = "Err" THEN set_status(d.r, "Error deleting file")
                  ELSE d.r)
                    EXCEPT !.show_delete_confirmation = FALSE,
                           !.pending_delete_path = None],
          res |-> d.res, disk |-> d.disk]

\* the "Yes, Delete" button of the confirmation window
confirm_delete(r, disk, fs_ok) ==
    close_confirmation(delete_current_file(r, disk, fs_ok))

\* a faulty variant of cancel_delete that keeps the captured Entry
cancel_delete_keeping_path(r) == [r EXCEPT !.show_delete_confirmation = FALSE]

\* the "Cancel" button of the confirmation window
cancel_delete(r) ==
    [r EXCEPT !.show_delete_confirmation = FALSE, !.pending_delete_path = None]

\* a click on the thumbnail of entry idx of the folder list
thumbnail_click(r, idx, disk) ==
    LET r1 == [r EXCEPT !.current_index = idx]
        file_path == At(r.files_in_folder, idx)
    IN IF r1.current_path = None THEN r1
       ELSE IF r1.is_in_archive
       THEN load_cbz_image(r1, r1.current_path[1], file_path, disk).r
       ELSE load_image(r1, file_path, disk).r

\* generate_image_thumbnail succeeds for path
ImageThumbnailLoads(path, disk) == ~is_archive_file(path) /\ Decodable(path, disk)

\* generate_archive_thumbnail succeeds for path
ArchiveThumbnailLoads(path, disk) ==
    /\ is_archive_file(path)
    /\ ArchiveOpens(path, disk)
    /\ FirstUnreadable(ArchiveMembers(path)) = 0
    /\ LET images == sort_by(SelectSeq(MemberNames(ArchiveMembers(path)),
                                       has_image_extension), FALSE)
       IN /\ images # <<>>
          /\ ExtensionTable[images[1]] \in
                {Some(ExtJpg), Some(ExtJpeg), Some(ExtPng), Some(ExtWebp), Some(ExtGif)}

(***************************************************************************)
(* The state machine.  update() runs once per frame: it first re-opens     *)
(* current_path when no image is displayed (pc = "update"), then handles   *)
(* the input of the frame (pc = "input"); a frame carries at most one      *)
(* input event.  op names what the current frame has done so far.          *)
(***************************************************************************)
\* compared holds the arguments and the result of a call of the comparator;
\* the reader itself keeps no such state
VARIABLES reader, disk, pc, op, crashed, compared

vars == <<reader, disk, pc, op, crashed, compared>>

InitialDisk == InitialImages \cup {OtherFiles[i] : i \in 1..Len(OtherFiles)}

\* what the file dialogs of Open File / Open Directory may return (absolute
\* paths)
OpenTargets == {DirD, Img02, Img10, Vol1, Vol2, Vol3, Vol4, Vol5}

\* what the command line may name: the same, or a bare file name relative
\* to the working directory
CommandLineArgs == OpenTargets \cup {VolR}

\* Path::exists
exists(path, d) == path \in d \/ path \in Directories

\* MangaReader::new: current_path is the first command-line argument if it
\* names something that exists
Init ==
    /\ reader \in {DefaultReader} \cup
                  {[DefaultReader EXCEPT !.current_path = Some(p)] :
                       p \in {q \in CommandLineArgs : exists(q, InitialDisk)}}
    /\ disk = InitialDisk
    /\ pc = "update"
    /\ op = "new"
    /\ crashed = FALSE
    /\ compared = None

\* the frame ends normally
Commit(r, d, o) ==
    /\ reader' = r
    /\ disk' = d
    /\ op' = o
    /\ pc' = "update"
    /\ crashed' = FALSE
    /\ UNCHANGED compared

\* the process aborts on a panic
Abort(r, d, o) ==
    /\ reader' = r
    /\ disk' = d
    /\ op' = o
    /\ pc' = pc
    /\ crashed' = TRUE
    /\ UNCHANGED compared

\* the frame of an input event ends, or the process aborts on a panic
Frame(l, d, o) == IF l.res = "Panic" THEN Abort(l.r, d, o) ELSE Commit(l.r, d, o)

\* the head of update(): open current_path while nothing is displayed
UpdateBegin ==
    /\ pc = "update" /\ ~crashed
    /\ IF reader.current_path # None /\ reader.current_image = None
       THEN \E walk \in WalkListings(WalkedDir(reader.current_path[1]), disk) :
               /\ reader' = on_err_status(
                                open_file(reader, reader.current_path[1], walk, disk),
                                "Error opening file").r
               /\ op' = "auto_open"
       ELSE reader' = reader /\ op' = "none"
    /\ pc' = "input"
    /\ UNCHANGED <<disk, crashed, compared>>

\* "Open File" / "Open Directory" in the toolbar
Open ==
    /\ pc = "input" /\ ~crashed
    /\ \E path \in OpenTargets : \E walk \in WalkListings(WalkedDir(path), disk) :
          Frame(on_err_status(open_file(reader, path, walk, disk), "Error"),
                disk, "open")

\* Right / Space (error discarded), or the toolbar button / wheel (error shown)
Next_image ==
    /\ pc = "input" /\ ~crashed
    /\ \/ Frame(next_image(reader, disk), disk, "next")
       \/ Frame(on_err_status(next_image(reader, disk), "Error"), disk, "next")

\* Left (error discarded), or the toolbar button / wheel (error shown)
Previous_image ==
    /\ pc = "input" /\ ~crashed
    /\ \/ Frame(previous_image(reader, disk), disk, "previous")
       \/ Frame(on_err_status(previous_image(reader, disk), "Error"), disk, "previous")

JumpFirst ==
    /\ pc = "input" /\ ~crashed
    /\ Frame(Ok(home_key(reader, disk)), disk, "home")

JumpLast ==
    /\ pc = "input" /\ ~crashed
    /\ Frame(Ok(end_key(reader, disk)), disk, "end")

RequestDelete ==
    /\ pc = "input" /\ ~crashed
    /\ Frame(delete_key(reader), disk, "request_delete")

ConfirmDelete ==
    /\ pc = "input" /\ ~crashed
    /\ reader.show_delete_confirmation
    /\ \E fs_ok \in BOOLEAN : \E c \in {confirm_delete(reader, disk, fs_ok)} :
          Frame(c, c.disk, "confirm_delete")

CancelDelete ==
    /\ pc = "input" /\ ~crashed
    /\ reader.show_delete_confirmation
    /\ Frame(Ok(cancel_delete(reader)), disk, "cancel_delete")

\* the OK button of the "Last Image" window
DismissAlert ==
    /\ pc = "input" /\ ~crashed
    /\ reader.show_last_image_alert
    /\ Frame(Ok([reader EXCEPT !.show_last_image_alert = FALSE]), disk, "alert_ok")

\* a click on a loaded thumbnail of the folder list
ThumbnailJump ==
    /\ pc = "input" /\ ~crashed
    /\ \E idx \in 0..(Len(reader.files_in_folder) - 1) :
          /\ ImageThumbnailLoads(At(reader.files_in_folder, idx), disk)
          /\ Frame(Ok(thumbnail_click(reader, idx, disk)), disk, "thumbnail")

\* a click on a loaded thumbnail of the "Archives in Directory" list
ArchiveThumbnailOpen ==
    /\ pc = "input" /\ ~crashed
    /\ ~reader.is_in_archive
    /\ \E i \in 1..Len(reader.archive_files) :
          /\ ArchiveThumbnailLoads(reader.archive_files[i], disk)
          /\ \E walk \in WalkListings(WalkedDir(reader.archive_files[i]), disk) :
                Frame(Ok(open_file(reader, reader.archive_files[i], walk, disk).r),
                           disk, "archive_thumbnail")

\* a frame without input
Idle ==
    /\ pc = "input" /\ ~crashed
    /\ Frame(Ok(reader), disk, "idle")

Next ==
    \/ UpdateBegin
    \/ Next_image
    \/ Previous_image
    \/ JumpFirst
    \/ JumpLast
    \/ ThumbnailJump
    \/ RequestDelete
    \/ ConfirmDelete
    \/ CancelDelete
    \/ DismissAlert
    \/ Open
    \/ ArchiveThumbnailOpen
    \/ Idle

Spec == Init /\ [][Next]_vars

(***************************************************************************)
(* The comparator on two names that agree up to a digit run: the names are *)
(* prefix \o run \o rest, with a prefix that does not end in a digit and a  *)
(* rest that does not start with one, so that the run is maximal.          *)
(***************************************************************************)
MaxRunLen == 2

RunDigits == {"0", "1", "2"}

RECURSIVE Words(_, _)
\* the sequences of 1..n elements of alphabet
Words(alphabet, n) ==
    IF n = 0 THEN {}
    ELSE {<<c>> : c \in alphabet}
         \cup {<<c>> \o w : c \in alphabet, w \in Words(alphabet, n - 1)}

DigitRuns == Words(RunDigits, MaxRunLen)

RunPrefixes == {<<>>, <<"p", "a", "g", "e">>, <<"V", "_">>}

RunRests == {<<>>, <<"a">>, <<"B", "7">>, <<".", "1">>}

RunInit ==
    /\ reader = DefaultReader
    /\ disk = InitialDisk
    /\ pc = "update"
    /\ op = "new"
    /\ crashed = FALSE
    /\ compared \in [prefix : RunPrefixes,
                     run_a : DigitRuns, rest_a : RunRests,
                     run_b : DigitRuns, rest_b : RunRests,
                     result : {None}]

\* natural_sort(prefix + run_a + rest_a, prefix + run_b + rest_b)
CompareRuns ==
    /\ compared.result = None
    /\ compared' =
          [compared EXCEPT !.result =
              Some(natural_sort(compared.prefix \o compared.run_a \o compared.rest_a,
                                compared.prefix \o compared.run_b \o compared.rest_b))]
    /\ UNCHANGED <<reader, disk, pc, op, crashed>>

RunNext == CompareRuns

RunSpec == RunInit /\ [][RunNext]_vars

(***************************************************************************)
(* The comparator on a digit run above u64::MAX against a run that fits.   *)
(***************************************************************************)
\* digit runs whose value is above u64::MAX: u64::MAX + 1, with and without
\* a leading zero, twenty nines, and 10^20
OverflowingRuns ==
    {SubSeq(U64MaxDigits, 1, 19) \o <<"6">>,
     <<"0">> \o SubSeq(U64MaxDigits, 1, 19) \o <<"6">>,
     [i \in 1..20 |-> "9"],
     <<"1">> \o [i \in 1..20 |-> "0"]}

\* digit runs whose value fits: the short runs, u64::MAX, and u64::MAX after
\* a leading zero
FittingRuns == DigitRuns \cup {U64MaxDigits, <<"0">> \o U64MaxDigits}

OverflowInit ==
    /\ reader = DefaultReader
    /\ disk = InitialDisk
    /\ pc = "update"
    /\ op = "new"
    /\ crashed = FALSE
    /\ compared \in [prefix : RunPrefixes,
                     run_a : OverflowingRuns, rest_a : RunRests,
                     run_b : FittingRuns, rest_b : RunRests,
                     result : {None}]

OverflowSpec == OverflowInit /\ [][RunNext]_vars

(***************************************************************************)
(* The comparator on three names of letters of both cases, digits and      *)
(* other characters.                                                       *)
(***************************************************************************)
MaxNameLen == 2

NameChars == {"0", "1", "a", "A", "."}

Names == {<<>>} \cup Words(NameChars, MaxNameLen)

OrderInit ==
    /\ reader = DefaultReader
    /\ disk = InitialDisk
    /\ pc = "update"
    /\ op = "new"
    /\ crashed = FALSE
    /\ compared \in [a : Names, b : Names, c : Names, result : {None}]

\* natural_sort on every pair of names
NameOrderTable == [a \in Names |-> [b \in Names |-> natural_sort(a, b)]]

\* natural_sort on each pair of the three names
CompareNames ==
    /\ compared.result = None
    /\ compared' =
          [compared EXCEPT !.result =
              Some([aa |-> NameOrderTable[compared.a][compared.a],
                    ab |-> NameOrderTable[compared.a][compared.b],
                    ba |-> NameOrderTable[compared.b][compared.a],
                    bc |-> NameOrderTable[compared.b][compared.c],
                    ac |-> NameOrderTable[compared.a][compared.c]])]
    /\ UNCHANGED <<reader, disk, pc, op, crashed>>

OrderNext == CompareNames

OrderSpec == OrderInit /\ [][OrderNext]_vars

(***************************************************************************)
(* The comparator on two names, in both argument orders.                   *)
(***************************************************************************)
MaxPairLen == 3

\* names of the kind the reader lists
ExampleNames ==
    {<<"B", ".", "p", "n", "g">>, <<"b", ".", "p", "n", "g">>,
     <<"p", "a", "g", "e">>, <<"P", "A", "G", "E", "1">>,
     <<"p", "a", "g", "e", "0", "1">>, <<"p", "a", "g", "e", "1", ".", "p", "n", "g">>}

PairNames == {<<>>} \cup Words(NameChars, MaxPairLen) \cup ExampleNames

PairInit ==
    /\ reader = DefaultReader
    /\ disk = InitialDisk
    /\ pc = "update"
    /\ op = "new"
    /\ crashed = FALSE
    /\ compared \in [a : PairNames, b : PairNames, result : {None}]

\* natural_sort(a, b) and natural_sort(b, a)
ComparePair ==
    /\ compared.result = None
    /\ compared' =
          [compared EXCEPT !.result =
              Some([ab |-> natural_sort(compared.a, compared.b),
                    ba |-> natural_sort(compared.b, compared.a)])]
    /\ UNCHANGED <<reader, disk, pc, op, crashed>>

PairNext == ComparePair

PairSpec == PairInit /\ [][PairNext]_vars

(***************************************************************************)
(* slice::sort_by on a list of entries, with either comparator closure of  *)
(* the program, applied once and twice.                                    *)
(***************************************************************************)
MaxSortLen == 3

\* directory entries and archive entries, with names that compare Equal
\* (2.png / 02.png) and names under an in-archive folder
SortPool ==
    {Img2, Img02, Img10,
     <<"b", ".", "p", "n", "g">>, <<"c", "/", "a", ".", "j", "p", "e", "g">>,
     <<"C", ".", "P", "N", "G">>}

RECURSIVE Lists(_, _)
\* the sequences of 0..n elements of pool
Lists(pool, n) ==
    IF n = 0 THEN {<<>>}
    ELSE Lists(pool, n - 1)
         \cup {Append(v, x) : v \in Lists(pool, n - 1), x \in pool}

SortInit ==
    /\ reader = DefaultReader
    /\ disk = InitialDisk
    /\ pc = "update"
    /\ op = "new"
    /\ crashed = FALSE
    /\ compared \in [entries : Lists(SortPool, MaxSortLen),
                     by_file_name : BOOLEAN,
                     result : {None}]

\* entries.sort_by(..), and sort_by(..) again on the result
SortTwice ==
    /\ compared.result = None
    /\ \E once \in {sort_by(compared.entries, compared.by_file_name)} :
          compared' =
              [compared EXCEPT !.result =
                  Some([once |-> once,
                        twice |-> sort_by(once, compared.by_file_name)])]
    /\ UNCHANGED <<reader, disk, pc, op, crashed>>

SortNext == SortTwice

SortSpec == SortInit /\ [][SortNext]_vars

(***************************************************************************)
(* Properties                                                              *)
(***************************************************************************)
\* the step handles input event o
Acts(o) == pc = "input" /\ op' = o

\* the cursor is at the last index of a non-empty Collection
AtLast(r) ==
    r.files_in_folder # <<>> /\ r.current_index = Len(r.files_in_folder) - 1

\* the Archive Chain has an entry right after the open archive
HasNextArchive(r) ==
    /\ r.current_archive_index + 1 < Len(r.archive_files)
    /\ Some(At(r.archive_files, r.current_archive_index)) = r.current_path

\* the image entries of an archive in Collection order
SortedImageEntries(a) ==
    sort_by(SelectSeq(MemberNames(ArchiveMembers(a)), has_image_extension), FALSE)

\* every member of archive a can be read
FullyReadable(a, d) == ArchiveOpens(a, d) /\ FirstUnreadable(ArchiveMembers(a)) = 0

\* C1 as stated: in directory mode Next() at the last index is a no-op: the
\* index stays len-1, the Collection is unchanged and no alert is set.
C1_NextAtLastIsNoOp ==
    [][(Acts("next") /\ ~reader.is_in_archive /\ AtLast(reader))
        => /\ reader'.current_index = Len(reader.files_in_folder) - 1
           /\ reader'.files_in_folder = reader.files_in_folder
           /\ ~reader'.show_last_image_alert]_vars

\* C1 amended: in directory mode Next() at the last index wraps the cursor
\* to index 0; the Collection is unchanged and no alert is set.
C1_NextAtLastWraps ==
    [][(Acts("next") /\ ~reader.is_in_archive /\ AtLast(reader))
        => /\ reader'.current_index = 0
           /\ reader'.files_in_folder = reader.files_in_folder
           /\ ~reader'.show_last_image_alert]_vars

\* Next() has wrapped from the last entry of a full directory listing
C1_Witness ==
    /\ op = "next" /\ ~reader.is_in_archive
    /\ reader.current_path = Some(DirD)
    /\ Len(reader.files_in_folder) = MaxDirFiles
    /\ reader.current_index = 0

\* C2: the file ConfirmDelete() removes from disk is the Entry that
\* RequestDelete() captured as Pending Deletion.
C2_DeletesPendingEntry ==
    [][(Acts("confirm_delete") /\ disk' # disk)
        => /\ reader.pending_delete_path # None
           /\ disk \ disk' = {reader.pending_delete_path[1]}]_vars

\* C3: a non-empty Collection implies 0 <= current index < len(Collection).
C3_IndexInRange ==
    reader.files_in_folder # <<>>
        => (0 <= reader.current_index /\ reader.current_index < Len(reader.files_in_folder))

\* C4: in archive mode at the last index with no alert pending, Next() sets
\* the alert and the "reaching last image" notice and leaves the cursor,
\* the Collection, the open archive and the chain index unchanged.
C4_FirstNextRaisesAlert ==
    [][(Acts("next") /\ reader.is_in_archive /\ AtLast(reader)
            /\ ~reader.show_last_image_alert)
        => /\ reader'.show_last_image_alert
           /\ reader'.status_message =
                  Some("Reaching last image. Scroll again to load next archive.")
           /\ reader'.current_index = reader.current_index
           /\ reader'.files_in_folder = reader.files_in_folder
           /\ reader'.current_path = reader.current_path
           /\ reader'.archive_files = reader.archive_files
           /\ reader'.current_archive_index = reader.current_archive_index]_vars

\* Next() has raised the alert at the last image of an archive
C4_Witness ==
    /\ op = "next" /\ reader.is_in_archive /\ AtLast(reader)
    /\ reader.show_last_image_alert
    /\ reader.status_message =
           Some("Reaching last image. Scroll again to load next archive.")

SameArchivePosition(r1, r2) ==
    /\ r2.current_index = r1.current_index
    /\ r2.files_in_folder = r1.files_in_folder
    /\ r2.current_path = r1.current_path
    /\ r2.current_archive_index = r1.current_archive_index

\* C6 as stated: with the alert pending and no archive after the current
\* one, Next() emits "no more archives", clears the alert and leaves the
\* cursor, the Collection, the open archive and the chain index unchanged.
C6_NoNextArchiveNotice ==
    [][(Acts("next") /\ reader.is_in_archive /\ AtLast(reader)
            /\ reader.show_last_image_alert
            /\ ~(reader.current_archive_index + 1 < Len(reader.archive_files)))
        => /\ reader'.status_message = Some("No more archives to load")
           /\ ~reader'.show_last_image_alert
           /\ SameArchivePosition(reader, reader')]_vars

\* the step is a call of open_file
ActsOpen == Acts("open") \/ Acts("archive_thumbnail") \/ (pc = "update" /\ op' = "auto_open")

\* C7 as stated: every Open leaves the cursor at index 0 and clears the
\* last-image alert and the pending deletion.
C7_OpenResetsCursorAndFlags ==
    [][ActsOpen
        => /\ reader'.current_index = 0
           /\ ~reader'.show_last_image_alert
           /\ ~reader'.show_delete_confirmation
           /\ reader'.pending_delete_path = None]_vars

\* C8: an Open that fails leaves Collection, cursor, mode flag, source path,
\* Archive Chain and chain index as they were.
C8_FailedOpenKeepsState ==
    [][((Acts("open") /\ reader'.status_message = Some("Error"))
          \/ (pc = "update" /\ op' = "auto_open"
                /\ reader'.status_message = Some("Error opening file")))
        => /\ reader'.files_in_folder = reader.files_in_folder
           /\ reader'.current_index = reader.current_index
           /\ reader'.is_in_archive = reader.is_in_archive
           /\ reader'.current_path = reader.current_path
           /\ reader'.archive_files = reader.archive_files
           /\ reader'.current_archive_index = reader.current_archive_index]_vars

\* C9: the frame loop never opens the current source on its own; the only
\* open it performs is that of the command-line argument of a new process.
C9_NoAutomaticRetry ==
    [][(pc = "update" /\ op' = "auto_open") => op = "new"]_vars

\* C10: a successful ConfirmDelete() in directory mode removes exactly the
\* Entry at the cursor, keeps the order of the others and leaves the cursor
\* at min(old index, new len - 1); when the Collection becomes empty the
\* displayed image is cleared and "no more images" is reported.
C10_DeleteRemovesEntryAtCursor ==
    [][(Acts("confirm_delete") /\ ~reader.is_in_archive /\ disk' # disk)
        => LET old == reader.files_in_folder
               new == reader'.files_in_folder
               i   == reader.current_index
           IN /\ Len(new) = Len(old) - 1
              /\ \A j \in 1..Len(new) : new[j] = IF j <= i THEN old[j] ELSE old[j + 1]
              /\ disk \ disk' = {At(old, i)}
              /\ new # <<>> =>
                    reader'.current_index = IF i <= Len(new) - 1 THEN i ELSE Len(new) - 1
              /\ new = <<>> =>
                    /\ reader'.current_image = None
                    /\ reader'.status_message = Some("No more images in directory")]_vars

\* a file of a three-file directory has been deleted and the cursor stands
\* on the last of the two that remain
C10_Witness ==
    /\ op = "confirm_delete" /\ ~reader.is_in_archive
    /\ reader.status_message = Some("Deleted")
    /\ Len(reader.files_in_folder) = 2
    /\ Cardinality(disk) = Cardinality(InitialDisk) - 1
    /\ reader.current_index = 1

\* C11: ConfirmDelete() in archive mode deletes nothing from the file
\* system (the archive file included), changes neither the Collection nor
\* the cursor index, and reports that files inside archives cannot be deleted.
C11_ArchiveDeleteRejected ==
    [][(Acts("confirm_delete") /\ reader.is_in_archive)
        => /\ disk' = disk
           /\ reader'.files_in_folder = reader.files_in_folder
           /\ reader'.current_index = reader.current_index
           /\ reader'.status_message =
                  Some("Cannot delete files inside archives")]_vars

\* "Yes, Delete" was pressed on an entry of the open archive v1.cbz
C11_Witness ==
    /\ op = "confirm_delete" /\ reader.is_in_archive
    /\ reader.current_path = Some(Vol1)
    /\ reader.files_in_folder # <<>>
    /\ Vol1 \in disk
    /\ reader.status_message = Some("Cannot delete files inside archives")

\* C12: when ConfirmDelete() in directory mode does not remove the file at
\* the cursor from the file system, the Collection and the cursor index are
\* unchanged and the failure is reported as a status notice.
C12_FailedRemovalKeepsCollection ==
    [][(/\ Acts("confirm_delete") /\ ~reader.is_in_archive
        /\ reader.files_in_folder # <<>>
        /\ reader.current_index < Len(reader.files_in_folder)
        /\ disk' = disk)
        => /\ reader'.files_in_folder = reader.files_in_folder
           /\ reader'.current_index = reader.current_index
           /\ reader'.status_message = Some("Error deleting file")]_vars

\* the removal of an entry of the full directory listing was refused
C12_Witness ==
    /\ op = "confirm_delete" /\ ~reader.is_in_archive
    /\ reader.current_path = Some(DirD)
    /\ Len(reader.files_in_folder) = MaxDirFiles
    /\ disk = InitialDisk
    /\ reader.status_message = Some("Error deleting file")

\* C13: every ConfirmDelete() clears Pending Deletion: afterwards the
\* confirmation flag is false and no Entry is captured.
C13_ConfirmAlwaysClearsPending ==
    [][Acts("confirm_delete")
        => /\ ~reader'.show_delete_confirmation
           /\ reader'.pending_delete_path = None]_vars

\* C14: CancelDelete() clears Pending Deletion and changes nothing else of
\* the reader, nor the file system.
C14_CancelOnlyClearsPending ==
    [][Acts("cancel_delete")
        => /\ reader' = [reader EXCEPT !.show_delete_confirmation = FALSE,
                                       !.pending_delete_path = None]
           /\ disk' = disk]_vars

\* a pending deletion of an entry of a non-empty Collection was cancelled
C14_Witness ==
    /\ op = "cancel_delete"
    /\ reader.files_in_folder # <<>>
    /\ ~reader.show_delete_confirmation
    /\ reader.pending_delete_path = None

\* C15: RequestDelete() changes nothing when the Collection is empty;
\* otherwise it captures the Entry at the cursor index as Pending Deletion and
\* raises the confirmation flag, and changes nothing else of the reader, nor
\* the file system.
C15_RequestCapturesEntryAtCursor ==
    [][Acts("request_delete")
        => /\ disk' = disk
           /\ IF reader.files_in_folder = <<>> THEN reader' = reader
              ELSE /\ reader.current_index < Len(reader.files_in_folder)
                   /\ reader' =
                        [reader EXCEPT
                            !.show_delete_confirmation = TRUE,
                            !.pending_delete_path =
                                Some(At(reader.files_in_folder,
                                        reader.current_index))]]_vars

\* C16: Previous() changes nothing when the Collection is empty; otherwise,
\* in either mode, it moves the cursor from index 0 to len-1 and from an
\* index i > 0 to i-1.
C16_PreviousWrapsBackward ==
    [][Acts("previous")
        => IF reader.files_in_folder = <<>> THEN reader' = reader
           ELSE reader'.current_index =
                    IF reader.current_index = 0
                    THEN Len(reader.files_in_folder) - 1
                    ELSE reader.current_index - 1]_vars

\* Previous() has wrapped from the first to the last entry of archive v1.cbz
C16_Witness ==
    /\ op = "previous" /\ reader.is_in_archive
    /\ reader.current_path = Some(Vol1)
    /\ Len(reader.files_in_folder) > 1
    /\ reader.current_index = Len(reader.files_in_folder) - 1
    /\ reader.current_image = Some(At(reader.files_in_folder, reader.current_index))

\* C17: Previous() on a non-empty Collection leaves the alert cleared and
\* changes neither the Collection, the open source and its mode, the Archive
\* Chain nor the chain index.
C17_PreviousKeepsCollectionAndChain ==
    [][(Acts("previous") /\ reader.files_in_folder # <<>>)
        => /\ ~reader'.show_last_image_alert
           /\ reader'.files_in_folder = reader.files_in_folder
           /\ reader'.current_path = reader.current_path
           /\ reader'.is_in_archive = reader.is_in_archive
           /\ reader'.archive_files = reader.archive_files
           /\ reader'.current_archive_index = reader.current_archive_index]_vars

\* Previous() right after the last-image alert was raised in an archive: the
\* notice of the alert is still shown, the alert is gone
C17_Witness ==
    /\ op = "previous" /\ reader.is_in_archive
    /\ reader.status_message =
           Some("Reaching last image. Scroll again to load next archive.")
    /\ Len(reader.files_in_folder) > 1
    /\ reader.archive_files # <<>>
    /\ ~reader.show_last_image_alert

\* C18: JumpFirst() / JumpLast() change nothing when the Collection is empty;
\* otherwise they set the cursor to 0 / len-1 and leave the alert flag, the
\* Collection, the Archive Chain and the chain index as they were.
C18_JumpsSetCursorOnly ==
    [][/\ Acts("home")
          => IF reader.files_in_folder = <<>> THEN reader' = reader
             ELSE /\ reader'.current_index = 0
                  /\ reader'.show_last_image_alert = reader.show_last_image_alert
                  /\ reader'.files_in_folder = reader.files_in_folder
                  /\ reader'.archive_files = reader.archive_files
                  /\ reader'.current_archive_index = reader.current_archive_index
       /\ Acts("end")
          => IF reader.files_in_folder = <<>> THEN reader' = reader
             ELSE /\ reader'.current_index = Len(reader.files_in_folder) - 1
                  /\ reader'.show_last_image_alert = reader.show_last_image_alert
                  /\ reader'.files_in_folder = reader.files_in_folder
                  /\ reader'.archive_files = reader.archive_files
                  /\ reader'.current_archive_index = reader.current_archive_index]_vars

\* JumpFirst() while the last-image alert of an archive is shown: the cursor
\* is at the first entry and the alert is still shown
C18_Witness ==
    /\ op = "home" /\ reader.is_in_archive
    /\ Len(reader.files_in_folder) > 1
    /\ reader.current_index = 0
    /\ reader.show_last_image_alert

\* the value of a digit run as a number
RECURSIVE RunValue(_)
RunValue(run) ==
    IF run = <<>> THEN 0
    ELSE 10 * RunValue(SubSeq(run, 1, Len(run) - 1))
         + (CodePoint(run[Len(run)]) - CodePoint("0"))

\* C19: for two names that agree up to a maximal digit run, the comparator
\* orders them by the numeric value of the runs, leading zeros ignored: the
\* smaller value is Less whatever follows the runs, and runs of equal value
\* leave the decision to the comparison of what follows them ("page2" is
\* Less than "page10", "page02" is Equal to "page2").
C19_DigitRunsCompareByValue ==
    compared.result # None
        => compared.result[1] =
              IF RunValue(compared.run_a) < RunValue(compared.run_b) THEN "Less"
              ELSE IF RunValue(compared.run_a) > RunValue(compared.run_b) THEN "Greater"
              ELSE natural_sort(compared.rest_a, compared.rest_b)

\* "page02" was compared with "page2" and found Equal
C19_Witness ==
    /\ compared.result = Some("Equal")
    /\ compared.prefix = <<"p", "a", "g", "e">>
    /\ compared.run_a = <<"0", "2">> /\ compared.rest_a = <<>>
    /\ compared.run_b = <<"2">> /\ compared.rest_b = <<>>

\* C20: for all names a, b, c the comparator answers Equal on (a, a), answers
\* on (a, b) the reverse of its answer on (b, a), and is transitive: when
\* neither (a, b) nor (b, c) is Greater, (a, c) is not Greater.
C20_ComparatorIsTotalOrder ==
    compared.result # None
        => LET o == compared.result[1]
           IN /\ o.aa = "Equal"
              /\ o.ab = (IF o.ba = "Less" THEN "Greater"
                         ELSE IF o.ba = "Greater" THEN "Less" ELSE "Equal")
              /\ (o.ab # "Greater" /\ o.bc # "Greater") => o.ac # "Greater"

\* "01" is Less than "1a", which is Equal to "1A": "01" is Less than "1A"
C20_Witness ==
    /\ compared.result # None
    /\ compared.a = <<"0", "1">>
    /\ compared.b = <<"1", "a">>
    /\ compared.c = <<"1", "A">>
    /\ compared.result[1].ab = "Less"
    /\ compared.result[1].bc = "Equal"
    /\ compared.result[1].ac = "Less"

\* the lower-case form of an ASCII letter, any other character as it is
FoldCase(c) ==
    IF IndexIn(UpperSeq, c) > 0 THEN LowerSeq[IndexIn(UpperSeq, c)] ELSE c

\* the two names differ at most in the case of their letters
SameUpToCase(a, b) ==
    Len(a) = Len(b) /\ \A i \in 1..Len(a) : FoldCase(a[i]) = FoldCase(b[i])

\* C21: two names that differ only in letter case compare Equal, in both
\* argument orders ("B.png" and "b.png").
C21_CaseInsensitive ==
    (compared.result # None /\ SameUpToCase(compared.a, compared.b))
        => /\ compared.result[1].ab = "Equal"
           /\ compared.result[1].ba = "Equal"

\* "B.png" was compared with "b.png" and found Equal
C21_Witness ==
    /\ compared.result # None
    /\ compared.a = <<"B", ".", "p", "n", "g">>
    /\ compared.b = <<"b", ".", "p", "n", "g">>
    /\ compared.result[1].ab = "Equal"

\* what the scan of a name compares position by position: a maximal digit
\* run by its value, any other character by its lower-case form
RECURSIVE Tokens(_)
Tokens(name) ==
    IF name = <<>> THEN <<>>
    ELSE IF is_ascii_digit(Head(name))
    THEN <<[digits |-> TRUE, value |-> RunValue(SubSeq(name, 1, DigitRunLen(name))),
            char |-> ""]>>
         \o Tokens(Drop(name, DigitRunLen(name)))
    ELSE <<[digits |-> FALSE, value |-> 0, char |-> FoldCase(Head(name))]>>
         \o Tokens(Tail(name))

\* s is a proper prefix of t
ProperPrefix(s, t) == Len(s) < Len(t) /\ SubSeq(t, 1, Len(s)) = s

\* C22: when every position of name a compares equal to the same position
\* of name b and a is exhausted while b still has characters, a orders first
\* (and b after a); when both are exhausted together the result is Equal.
C22_ExhaustedNameOrdersFirst ==
    compared.result # None
        => /\ ProperPrefix(Tokens(compared.a), Tokens(compared.b))
                => /\ compared.result[1].ab = "Less"
                   /\ compared.result[1].ba = "Greater"
           /\ Tokens(compared.a) = Tokens(compared.b)
                => compared.result[1].ab = "Equal"

\* "page" was compared with "PAGE1": equal up to the end of "page"
C22_Witness ==
    /\ compared.result # None
    /\ compared.a = <<"p", "a", "g", "e">>
    /\ compared.b = <<"P", "A", "G", "E", "1">>
    /\ compared.result[1].ab = "Less"
    /\ compared.result[1].ba = "Greater"

\* the run consists of zeros only
AllZeros(run) == \A i \in 1..Len(run) : run[i] = "0"

\* C23: a digit run whose value does not fit in 64 bits is compared as the
\* value 0: against a run of zeros the runs are Equal and what follows them
\* decides; against a run of value >= 1 that fits the result is Less.
C23_OverflowingRunIsZero ==
    compared.result # None
        => compared.result[1] =
              IF AllZeros(compared.run_b)
              THEN natural_sort(compared.rest_a, compared.rest_b)
              ELSE "Less"

\* "page99999999999999999999" was compared with "page1" and found Less
C23_Witness ==
    /\ compared.result = Some("Less")
    /\ compared.prefix = <<"p", "a", "g", "e">>
    /\ compared.run_a = [i \in 1..20 |-> "9"] /\ compared.rest_a = <<>>
    /\ compared.run_b = <<"1">> /\ compared.rest_b = <<>>

\* C24: opening again a directory that is open and unchanged (the Collection
\* is the one its listing produced) reproduces the same Collection order,
\* whatever the order in which the directory is enumerated.
C24_RelistingReproducesOrder ==
    [][(/\ ActsOpen
        /\ reader.current_path = Some(DirD)
        /\ reader.status_message = Some("Opened directory")
        /\ reader'.current_path = Some(DirD)
        /\ reader'.status_message = Some("Opened directory")
        /\ disk' = disk)
        => reader'.files_in_folder = reader.files_in_folder]_vars

\* C25: sorting with the comparator is idempotent: sorting the sorted list
\* again yields the same sequence.
C25_SortIsIdempotent ==
    compared.result # None
        => compared.result[1].twice = compared.result[1].once

\* 02.png, 10.png, 2.png was sorted: 02.png stays before 2.png, which it
\* compares Equal to, and 10.png moves behind both
C25_Witness ==
    /\ compared.result # None
    /\ compared.entries = <<Img02, Img10, Img2>>
    /\ compared.by_file_name
    /\ compared.result[1].once = <<Img02, Img2, Img10>>
    /\ compared.result[1].twice = <<Img02, Img2, Img10>>

\* the extension of the entry, letters folded to lower case, is one of the
\* five image types
IsImageName(entry) ==
    /\ extension(entry) # None
    /\ [i \in 1..Len(extension(entry)[1]) |-> FoldCase(extension(entry)[1][i])]
           \in {ExtJpg, ExtJpeg, ExtPng, ExtWebp, ExtGif}

\* C26: in every reachable state every entry of the Collection has one of
\* the extensions jpg, jpeg, png, webp, gif, compared case-insensitively.
C26_CollectionHoldsImagesOnly ==
    \A i \in 1..Len(reader.files_in_folder) : IsImageName(reader.files_in_folder[i])

\* archive v1.cbz (2.png, 1.png, n.txt) was opened without an error: the
\* Collection holds the two images
C26_Witness ==
    /\ reader.is_in_archive
    /\ reader.current_path = Some(Vol1)
    /\ reader.status_message = Some("Opened archive")
    /\ reader.files_in_folder = <<<<"1", ".", "p", "n", "g">>, <<"2", ".", "p", "n", "g">>>>

\* no entry of v is ordered before an entry whose bare name is smaller
BareNameOrdered(v) ==
    \A i, j \in 1..Len(v) : i < j => natural_sort_paths(v[i], v[j]) # "Greater"

\* C27: the Archive Chain, and the Collection a directory or archive listing
\* has produced, are ordered by the comparator applied to the bare names of
\* the entries, whatever folder path precedes a name.
C27_OrderedByBareName ==
    /\ BareNameOrdered(reader.archive_files)
    /\ reader.status_message \in {Some("Opened directory"), Some("Opened image"),
                                  Some("Opened archive"), Some("Loaded next archive")}
          => BareNameOrdered(reader.files_in_folder)

\* the entry at index n of the Collection of r fails to load
FailsToLoadAt(r, n, d) ==
    /\ n < Len(r.files_in_folder)
    /\ load_current([r EXCEPT !.current_index = n], d).res = "Err"

\* the state after a move of the cursor to n whose load failed: the index
\* is n, the Collection and the displayed image are as before, and the
\* error is with the caller, which discards it (keys) or shows it (toolbar)
MovedWithoutLoad(n) ==
    /\ reader'.current_index = n
    /\ reader'.files_in_folder = reader.files_in_folder
    /\ reader'.current_image = reader.current_image
    /\ reader'.status_message \in {reader.status_message, Some("Error")}
    /\ ~crashed'

\* C28: when the load of the Entry fails during Next() or Previous(), the
\* cursor keeps its new index, the Collection is unchanged and the error is
\* left to the caller.
C28_FailedLoadKeepsMove ==
    [][/\ (/\ Acts("next")
           /\ reader.files_in_folder # <<>>
           /\ ~(reader.is_in_archive /\ AtLast(reader))
           /\ FailsToLoadAt(reader,
                            (reader.current_index + 1) % Len(reader.files_in_folder),
                            disk))
          => MovedWithoutLoad((reader.current_index + 1) % Len(reader.files_in_folder))
       /\ (/\ Acts("previous")
           /\ reader.files_in_folder # <<>>
           /\ FailsToLoadAt(reader,
                            IF reader.current_index = 0
                            THEN Len(reader.files_in_folder) - 1
                            ELSE reader.current_index - 1,
                            disk))
          => MovedWithoutLoad(IF reader.current_index = 0
                              THEN Len(reader.files_in_folder) - 1
                              ELSE reader.current_index - 1)]_vars

\* the toolbar's Next() moved the cursor of directory d onto 10.png, which
\* does not decode: the image shown is still the one before it
C28_Witness ==
    /\ op = "next" /\ ~reader.is_in_archive
    /\ reader.current_path = Some(DirD)
    /\ reader.files_in_folder # <<>>
    /\ reader.current_index < Len(reader.files_in_folder)
    /\ At(reader.files_in_folder, reader.current_index) = Img10
    /\ reader.current_image # Some(Img10)
    /\ reader.current_image # None
    /\ reader.status_message = Some("Error")

\* directory dir of file system d holds no visible file with an image
\* extension
NoImageIn(dir, d) ==
    ~\E f \in d : parent(f) = dir /\ f \notin HiddenFiles /\ IsImageName(f)

\* C29: Open of a directory that holds no recognized image leaves an empty
\* Collection and the notice that no images were found, and succeeds: no
\* error is reported.
C29_EmptyDirectoryOpens ==
    [][(ActsOpen /\ reader'.current_path = Some(DirD) /\ NoImageIn(DirD, disk))
        => /\ reader'.files_in_folder = <<>>
           /\ reader'.status_message = Some("No images found in directory")
           /\ ~reader'.is_in_archive
           /\ ~crashed']_vars

\* the toolbar opened directory d after its last image was deleted
C29_Witness ==
    /\ op = "open"
    /\ reader.current_path = Some(DirD)
    /\ NoImageIn(DirD, disk)
    /\ TxtD \in disk
    /\ reader.files_in_folder = <<>>
    /\ reader.status_message = Some("No images found in directory")

\* C30: when the second Next() at the last image of an archive finds a next
\* archive that cannot be read, the open archive path, the chain index, the
\* Collection and the cursor index are left as they were before that Next().
C30_FailedAdvanceKeepsState ==
    [][(/\ Acts("next")
        /\ reader.is_in_archive /\ AtLast(reader)
        /\ reader.show_last_image_alert
        /\ reader.current_archive_index + 1 < Len(reader.archive_files)
        /\ ~FullyReadable(At(reader.archive_files, reader.current_archive_index + 1),
                          disk))
        => /\ reader'.current_path = reader.current_path
           /\ reader'.current_archive_index = reader.current_archive_index
           /\ reader'.files_in_folder = reader.files_in_folder
           /\ reader'.current_index = reader.current_index]_vars

\* C31: in every reachable state a pending last-image alert implies archive
\* mode, a non-empty Collection and the cursor at the last index len-1.
C31_AlertOnlyAtLastOfArchive ==
    reader.show_last_image_alert
        => /\ reader.is_in_archive
           /\ reader.files_in_folder # <<>>
           /\ reader.current_index = Len(reader.files_in_folder) - 1

\* entry e is a member of archive a that the archive reader can read
EntryReadable(a, e) ==
    \E i \in 1..Len(ArchiveMembers(a)) :
        ArchiveMembers(a)[i].name = e /\ ArchiveMembers(a)[i].readable

\* C34: in archive mode every Entry of the Collection that the open archive
\* can deliver is decoded by the entry loader: its extension, whatever its
\* letter case, maps to a decode format.
C34_AdmittedEntriesDecode ==
    (/\ reader.is_in_archive
     /\ reader.current_path # None
     /\ ~crashed)
        => \A i \in 1..Len(reader.files_in_folder) :
               (/\ ArchiveOpens(reader.current_path[1], disk)
                /\ EntryReadable(reader.current_path[1], reader.files_in_folder[i]))
                   => load_cbz_image(reader, reader.current_path[1],
                                     reader.files_in_folder[i], disk).res = "Ok"

\* C35: in every reachable state the delete-confirmation flag is set exactly
\* when a pending deletion path is captured.
C35_ConfirmationIffPending ==
    reader.show_delete_confirmation <=> reader.pending_delete_path # None

\* ---------------------------------------------------------------------
\* Repeated Next() over an Archive Chain whose archives can all be read
\* ---------------------------------------------------------------------

\* the archives of directory d whose members can all be read; v4.ZIP holds
\* no recognized image
ChainArchives == {a \in {Vol1, Vol2, Vol3, Vol4, Vol5} : FullyReadable(a, InitialDisk)}

\* the file systems that keep the last archive of the chain and any of the
\* others
ChainDisks ==
    {InitialDisk \ ((Archives \ ChainArchives) \cup gone) :
         gone \in SUBSET (ChainArchives \ {Vol5})}

\* MangaReader::new with an archive of the chain on the command line
ChainInit ==
    /\ disk \in ChainDisks
    /\ reader \in {[DefaultReader EXCEPT !.current_path = Some(p)] :
                       p \in {q \in ChainArchives : exists(q, disk)}}
    /\ pc = "update"
    /\ op = "new"
    /\ crashed = FALSE
    /\ compared = None

\* every frame is one in which Next() is requested
ChainNext == UpdateBegin \/ Next_image

\* eframe calls update() for every frame, and every frame's input is Next()
ChainSpec ==
    /\ ChainInit
    /\ [][ChainNext]_vars
    /\ WF_vars(UpdateBegin)
    /\ WF_vars(Next_image)

\* the open archive is the last one of the Archive Chain
LastOfChainOpen ==
    /\ reader.is_in_archive
    /\ reader.archive_files # <<>>
    /\ reader.current_path = Some(reader.archive_files[Len(reader.archive_files)])

\* C32: in archive mode over a chain whose archives can all be read,
\* repeating Next() eventually makes the last archive of the chain the open
\* one.
C32_NextReachesLastArchive == <>LastOfChainOpen

\* ---------------------------------------------------------------------
\* The thumbnail panel: frames in which the panel is shown
\* ---------------------------------------------------------------------

\* usize::saturating_sub
saturating_sub(a, b) == IF a >= b THEN a - b ELSE 0

\* Ord::min
min(a, b) == IF a <= b THEN a ELSE b

\* &v[start..end] of a Vec of len elements does not panic
slice_in_bounds(start, end, len) == start <= end /\ end <= len

\* the window of the Collection that load_visible_thumbnails slices
image_window(r) ==
    [start_idx |-> saturating_sub(r.current_index, 5),
     end_idx   |-> min(r.current_index + 10, Len(r.files_in_folder))]

\* the window of the Archive Chain that load_visible_thumbnails slices
archive_window(r) ==
    [start_archive |-> saturating_sub(r.current_archive_index, 3),
     end_archive   |-> min(r.current_archive_index + 6, Len(r.archive_files))]

\* load_visible_thumbnails: the thumbnail cache itself is not modelled
load_visible_thumbnails(r) ==
    IF ~slice_in_bounds(image_window(r).start_idx, image_window(r).end_idx,
                        Len(r.files_in_folder))
    THEN Panic(r)
    ELSE IF /\ ~r.is_in_archive
            /\ ~slice_in_bounds(archive_window(r).start_archive,
                                archive_window(r).end_archive,
                                Len(r.archive_files))
    THEN Panic(r)
    ELSE Ok(r)

PanelDisk == SeqRange(PanelFiles)

PanelTargets == {DirW, PanelA, PanelB}

\* MangaReader::new against directory w; the panel has been switched on (T)
PanelInit ==
    /\ reader \in {DefaultReader} \cup
                  {[DefaultReader EXCEPT !.current_path = Some(p)] : p \in PanelTargets}
    /\ disk = PanelDisk
    /\ pc = "update"
    /\ op = "new"
    /\ crashed = FALSE
    /\ compared = None

\* update() after a key was handled: handle_keyboard_input has produced l,
\* then the panel warms its cache and the frame ends
PanelKeyFrame(l, o) ==
    \E warmed \in {IF l.res = "Panic" THEN l ELSE load_visible_thumbnails(l.r)} :
        Frame(warmed, disk, o)

\* update() with an input of the toolbar: the panel warms its cache on the
\* state the frame began with, then the button is handled
PanelButtonFrame(l, o) ==
    IF load_visible_thumbnails(reader).res = "Panic"
    THEN Abort(reader, disk, "thumbnails")
    ELSE Frame(l, disk, o)

\* Right / Space
PanelKeyNext ==
    /\ pc = "input" /\ ~crashed
    /\ PanelKeyFrame(next_image(reader, disk), "next")

\* Left
PanelKeyPrevious ==
    /\ pc = "input" /\ ~crashed
    /\ PanelKeyFrame(previous_image(reader, disk), "previous")

\* Home
PanelKeyHome ==
    /\ pc = "input" /\ ~crashed
    /\ PanelKeyFrame(Ok(home_key(reader, disk)), "home")

\* End
PanelKeyEnd ==
    /\ pc = "input" /\ ~crashed
    /\ PanelKeyFrame(Ok(end_key(reader, disk)), "end")

\* "Open File" / "Open Directory" in the toolbar
PanelOpen ==
    /\ pc = "input" /\ ~crashed
    /\ \E path \in PanelTargets : \E walk \in WalkListings(WalkedDir(path), disk) :
          PanelButtonFrame(on_err_status(open_file(reader, path, walk, disk), "Error"),
                           "open")

\* a frame without input
PanelIdle ==
    /\ pc = "input" /\ ~crashed
    /\ PanelKeyFrame(Ok(reader), "idle")

PanelNext ==
    \/ UpdateBegin
    \/ PanelKeyNext
    \/ PanelKeyPrevious
    \/ PanelKeyHome
    \/ PanelKeyEnd
    \/ PanelOpen
    \/ PanelIdle

PanelSpec == PanelInit /\ [][PanelNext]_vars

\* C33: in every reachable state the window the thumbnail panel slices from
\* the Collection is a valid range, saturating(index-5) <= min(index+10, len)
\* <= len, and so is the window (3 before, 6 after) of the Archive Chain.
C33_ThumbnailWindowsValid ==
    /\ slice_in_bounds(image_window(reader).start_idx, image_window(reader).end_idx,
                       Len(reader.files_in_folder))
    /\ slice_in_bounds(archive_window(reader).start_archive,
                       archive_window(reader).end_archive,
                       Len(reader.archive_files))

====
